---------------------------- MODULE Spec2Model ----------------------------
(***************************************************************************)
(* A model of OpenCoder's plan execution engine and agent loop:            *)
(*   - PlanManager (src/src/planning/plan-manager.ts): the plan state      *)
(*     machine, task selection and the task transitions, as pure operators *)
(*     on the plan record;                                                 *)
(*   - Executor (src/src/planning/executor.ts): execute(), executeTask()   *)
(*     and attemptFix(), one action per stretch of code between two awaits *)
(*     (JavaScript runs each stretch to completion);                       *)
(*   - Agent.run (src/unnamed/part_003) with parseToolCalls                *)
(*     (src/src/agent/parser.ts): the tool dispatch loop;                  *)
(*   - the plan commands (src/unnamed/part_001): createPlan, clearPlan;    *)
(*   - Planner.createPlan (src/src/planning/planner.ts) with its parsers;  *)
(*   - Verifier.verifyAll (src/src/planning/types.ts).                     *)
(***************************************************************************)
EXTENDS Integers, Sequences, FiniteSets, TLC

\* ------------------------------------------------------------------ bounds

\* Number of tasks of the plans explored.
MaxTasks == 2

\* PlanConfig.maxTaskAttempts takes the values 1..MaxAttemptsBound in the
\* plans the Executor runs.
MaxAttemptsBound == 2

\* PlanConfig.maxTaskAttempts of the plans driven by direct PlanManager calls.
MaxDirectAttempts == 1

\* Tool calls in one completion: 0..MaxToolCalls.
MaxToolCalls == 2

\* Agent.run is called on a context holding at most MaxStartLog messages.
MaxStartLog == 1

\* const MAX_TOOL_ITERATIONS = 20
MAX_TOOL_ITERATIONS == 20

VARIABLES
    plan,        \* PlanManager.plan
    pmConfig,    \* PlanManager.config
    exConfig,    \* Executor.config
    shouldStop,  \* Executor.shouldStop
    isRunning,   \* Executor.isRunning
    frame,       \* one record per activation of Executor.execute()
    lastCall,    \* the latest direct call of a PlanManager method and its result
    starts,      \* per task: how many times markTaskInProgress was called for it
    fails,       \* per task: how many of its runs were recorded as failed
    ctx,         \* the ConversationContext of the interactive session
    ag,          \* the activation of Agent.run on ctx
    planning,    \* the createPlan command: "idle", or "agent" while it awaits the Planner
    verify,      \* the activation of Verifier.verifyAll, and what its latest call returned
    parse        \* one application of parseToolCalls or of normalizeToolName

vars == <<plan, pmConfig, exConfig, shouldStop, isRunning, frame, lastCall, starts, fails, ctx, ag, planning, verify, parse>>

agVars == <<ctx, ag>>

exVars == <<exConfig, shouldStop, isRunning, frame, starts, fails, agVars, parse, planning, verify>>

planVars == <<plan, pmConfig, exConfig, shouldStop, isRunning, frame, lastCall, starts, fails, planning, verify, parse>>

\* ------------------------------------------------------------ PlanManager

\* this.plan === null
NoPlan ==
    [status |-> "none", tasks |-> <<>>, currentTaskIndex |-> 0,
     build |-> FALSE, test |-> FALSE]

HasPlan(p) == p.status # "none"

IsApproved(p) == p.status = "approved" \/ p.status = "in_progress"

NewTask(i, deps, c) ==
    [id |-> i, status |-> "pending", deps |-> deps, attempts |-> 0,
     maxAttempts |-> c.maxTaskAttempts, error |-> ""]

\* createPlan: ids task-1 .. task-n in list order, every task pending with no
\* attempts, status draft, cursor 0, no verify commands.
CreatePlan(c, depsSeq) ==
    [status |-> "draft",
     tasks |-> [i \in 1..Len(depsSeq) |-> NewTask(i, depsSeq[i], c)],
     currentTaskIndex |-> 0,
     build |-> FALSE, test |-> FALSE]

SetVerifyCommands(p, build, test) ==
    IF HasPlan(p) THEN [p EXCEPT !.build = build, !.test = test] ELSE p

\* approvePlan without the test for draft
ApproveOkAnyStatus(p) == HasPlan(p)

ApproveOk(p) == HasPlan(p) /\ p.status = "draft"

ApprovePlan(p) == IF ApproveOk(p) THEN [p EXCEPT !.status = "approved"] ELSE p

\* startExecution without the status test of line 64
StartOkAnyStatus(p) == HasPlan(p)

StartOk(p) == HasPlan(p) /\ p.status = "approved"

StartExecution(p) == IF StartOk(p) THEN [p EXCEPT !.status = "in_progress"] ELSE p

\* tasks.find(t => t.id === id): the index of the first task with that id, 0 if none
FindTask(p, id) ==
    IF \E i \in DOMAIN p.tasks : p.tasks[i].id = id
    THEN CHOOSE i \in DOMAIN p.tasks :
            /\ p.tasks[i].id = id
            /\ \A j \in 1..(i - 1) : p.tasks[j].id # id
    ELSE 0

\* task.dependencies.every(depId => find(depId)?.status === 'completed')
DepsCompleteNoCheck(p, i) == TRUE

\* depsComplete taking a dependency that names no task as completed
DepsCompleteMissingOk(p, i) ==
    \A d \in p.tasks[i].deps :
        \/ FindTask(p, d) = 0
        \/ p.tasks[FindTask(p, d)].status = "completed"

DepsComplete(p, i) ==
    \A d \in p.tasks[i].deps :
        /\ FindTask(p, d) # 0
        /\ p.tasks[FindTask(p, d)].status = "completed"

\* getNextTask without the status test of line 84
RunnableAnyStatus(p) ==
    {i \in (p.currentTaskIndex + 1)..Len(p.tasks) : DepsComplete(p, i)}

\* The tasks the scan of getNextTask may return: at or after the cursor,
\* pending, dependencies complete (indices into tasks, 1-based).
Runnable(p) ==
    {i \in (p.currentTaskIndex + 1)..Len(p.tasks) :
        p.tasks[i].status = "pending" /\ DepsComplete(p, i)}

\* getNextTask: the returned task (its index, 0 for null) and the plan with
\* the cursor moved to it.
NextTaskIndex(p) ==
    IF Runnable(p) = {} THEN 0
    ELSE CHOOSE i \in Runnable(p) : \A j \in Runnable(p) : i <= j

\* getNextTask leaving the cursor after the task it returns
GetNextTaskCursorPast(p) ==
    LET i == NextTaskIndex(p)
    IN  [task |-> i,
         plan |-> IF i = 0 THEN p ELSE [p EXCEPT !.currentTaskIndex = i]]

GetNextTask(p) ==
    LET i == NextTaskIndex(p)
    IN  [task |-> i,
         plan |-> IF i = 0 THEN p ELSE [p EXCEPT !.currentTaskIndex = i - 1]]

\* markTaskInProgress without the attempts++ of line 103
MarkTaskInProgressNoCount(p, id) ==
    LET i == FindTask(p, id)
    IN  IF i = 0 THEN p ELSE [p EXCEPT !.tasks[i].status = "in_progress"]

MarkTaskInProgress(p, id) ==
    LET i == FindTask(p, id)
    IN  IF i = 0 THEN p
        ELSE [p EXCEPT !.tasks[i].status = "in_progress",
                       !.tasks[i].attempts = @ + 1]

\* checkPlanCompletion with tasks.some in place of tasks.every on line 134
CheckPlanCompletionSomeCompleted(p, c) ==
    IF ~HasPlan(p) THEN p
    ELSE IF \E i \in DOMAIN p.tasks : p.tasks[i].status = "completed"
         THEN [p EXCEPT !.status = "completed"]
    ELSE IF (\E i \in DOMAIN p.tasks : p.tasks[i].status = "failed")
             /\ c.stopOnFirstFailure
         THEN [p EXCEPT !.status = "failed"]
    ELSE p

CheckPlanCompletion(p, c) ==
    IF ~HasPlan(p) THEN p
    ELSE IF \A i \in DOMAIN p.tasks : p.tasks[i].status = "completed"
         THEN [p EXCEPT !.status = "completed"]
    ELSE IF (\E i \in DOMAIN p.tasks : p.tasks[i].status = "failed")
             /\ c.stopOnFirstFailure
         THEN [p EXCEPT !.status = "failed"]
    ELSE p

\* markTaskCompleted without task.error = undefined
MarkTaskCompletedKeepError(p, c, id) ==
    LET i == FindTask(p, id)
        q == IF i = 0 THEN p ELSE [p EXCEPT !.tasks[i].status = "completed"]
    IN  CheckPlanCompletion(q, c)

MarkTaskCompleted(p, c, id) ==
    LET i == FindTask(p, id)
        q == IF i = 0 THEN p
             ELSE [p EXCEPT !.tasks[i].status = "completed", !.tasks[i].error = ""]
    IN  CheckPlanCompletion(q, c)

AttemptsExhaustedOffByOne(t) == t.attempts > t.maxAttempts

AttemptsExhausted(t) == t.attempts >= t.maxAttempts

\* markTaskFailed resetting the task to pending whatever its attempts
MarkTaskFailedAlwaysRetry(p, c, id, error) ==
    LET i == FindTask(p, id)
    IN  IF i = 0 THEN p
        ELSE [p EXCEPT !.tasks[i].error = error, !.tasks[i].status = "pending"]

\* markTaskFailed without the reset to pending of line 126
MarkTaskFailedNoReset(p, c, id, error) ==
    LET i == FindTask(p, id)
    IN  IF i = 0 THEN p
        ELSE IF AttemptsExhausted(p.tasks[i])
             THEN [p EXCEPT !.tasks[i].error = error,
                            !.tasks[i].status = "failed",
                            !.status = IF c.stopOnFirstFailure THEN "failed" ELSE @]
             ELSE [p EXCEPT !.tasks[i].error = error]

MarkTaskFailed(p, c, id, error) ==
    LET i == FindTask(p, id)
    IN  IF i = 0 THEN p
        ELSE IF AttemptsExhausted(p.tasks[i])
             THEN [p EXCEPT !.tasks[i].error = error,
                            !.tasks[i].status = "failed",
                            !.status = IF c.stopOnFirstFailure THEN "failed" ELSE @]
             ELSE [p EXCEPT !.tasks[i].error = error,
                            !.tasks[i].status = "pending"]



\* ------------------------------------------------------- context and Agent

\* createContext: no message, planMode false
CreateContext == [messages |-> <<>>, planMode |-> FALSE]

Msg(role, content) == [role |-> role, content |-> content]

\* findIndex(m => m.role === 'system'), 0 if none
SystemIndex(msgs) ==
    IF \E i \in DOMAIN msgs : msgs[i].role = "system"
    THEN CHOOSE i \in DOMAIN msgs :
            /\ msgs[i].role = "system"
            /\ \A j \in 1..(i - 1) : msgs[j].role # "system"
    ELSE 0

\* addSystemMessage without the search for an existing system message
AddSystemMessageNoReplace(c, content) ==
    [c EXCEPT !.messages = <<Msg("system", content)>> \o @]

\* addSystemMessage: replace the system message, or put one in front
AddSystemMessage(c, content) ==
    LET i == SystemIndex(c.messages)
    IN  IF i # 0
        THEN [c EXCEPT !.messages[i] = Msg("system", content)]
        ELSE [c EXCEPT !.messages = <<Msg("system", content)>> \o @]

AddUserMessage(c, content) == [c EXCEPT !.messages = Append(@, Msg("user", content))]

AddAssistantMessage(c, content) ==
    [c EXCEPT !.messages = Append(@, Msg("assistant", content))]

\* clearContext: keep the system message only
ClearContextOf(c) ==
    LET i == SystemIndex(c.messages)
    IN  [c EXCEPT !.messages = IF i # 0 THEN <<c.messages[i]>> ELSE <<>>]

\* createDefaultTools
DefaultTools == {"read_file", "write_file", "edit_file", "bash", "glob"}

\* The tools that change files or run commands.
MutatingTools == {"write_file", "edit_file", "bash"}

\* getToolByName(tools, name) !== undefined
ToolKnown(tools, name) == name \in tools

\* buildSystemPrompt: the catalogue of all registered tools, and the PLAN MODE
\* paragraph when context.planMode is set.
BuildSystemPrompt(c) == IF c.planMode THEN "prompt+planmode" ELSE "prompt"

\* Agent.run not running. calls: the tool calls of the turn not yet
\* dispatched (the head is the one being executed when pc = "tool");
\* results: the result blocks collected in the turn. The other fields record
\* what the run did: outcome, reply and cause (how it ended, what it returned,
\* which await threw), requests (provider requests made), seen (the latest
\* non-empty text parseToolCalls returned), written (the extracted calls of
\* turn in flight in the order of the completion's text), noCalls (the latest
\* completion held no tool call), collected (the result blocks the turn had
\* collected when a tool's execute threw), malformedOnly (the latest
\* completion wrote tool-call candidates and every one was malformed).
IdleAgent ==
    [pc |-> "idle", iteration |-> 0, finalResponse |-> "",
     calls |-> <<>>, results |-> <<>>, outcome |-> "none", reply |-> "",
     cause |-> "none", requests |-> 0, seen |-> "", written |-> <<>>,
     noCalls |-> FALSE, collected |-> 0, malformedOnly |-> FALSE]

\* The names the tool calls of the completions explored carry (after
\* normalizeToolName): a registered tool that only reads, a registered tool
\* that writes, and a name no tool is registered under.
ToolNames == {"read_file", "write_file", "no_such_tool"}

\* The three ways a completion writes a tool call: <tool_call> block, fenced
\* JSON block, bare JSON object.
Encodings == {"tagged", "fenced", "bare"}

\* toolNames of pattern 3, in the order it is iterated
BareToolNames ==
    <<"read_file", "readfile", "read-file",
      "write_file", "writefile", "write-file",
      "edit_file", "editfile", "edit-file",
      "bash", "glob">>

\* What is left of a completion when its tool calls are taken out: nothing,
\* or one of two texts.
Texts == {"", "a", "b"}

\* The names a tool-call object is written with: a canonical name, an alias
\* in mixed case, an alias with a hyphen, a name no tool is registered under,
\* a name that is also a property of every JavaScript object, and the empty
\* string.
RawNames == {"read_file", "ReadFile", "write-file", "no_such_tool", "constructor", ""}

\* The object is valid JSON (double-quoted strings), or written with
\* single-quoted strings.
Quotes == {"double", "single"}

\* The object's parameters member: missing, or an object.
ParamValues == {"absent", "{path}"}

\* A tool-call object as a completion writes it: its encoding, its name
\* member, its quoting and its parameters member.
ToolCallObjects ==
    [enc : Encodings, name : RawNames, quotes : Quotes, params : ParamValues]

\* A candidate none of the three JSON.parse attempts accepts (lines 102, 122,
\* 136; "broken": member names without quotes, no JSON also after the
\* repairs), or whose name fails the test of lines 103, 123, 137.
Malformed(o) == o.quotes = "broken" \/ o.name = ""

\* The tool-call objects of the completions a provider returns to Agent.run:
\* valid JSON with one parameters object, or a malformed candidate in a
\* <tool_call> block (no JSON, or an empty name; pattern 1 hands every block
\* to tryParseToolCall, patterns 2 and 3 match neither).
Segments ==
    [enc : Encodings, name : ToolNames, quotes : {"double"}, params : {"{path}"}]
        \cup [enc : {"tagged"}, name : {"read_file"}, quotes : {"broken"}, params : {"{path}"}]
        \cup [enc : {"tagged"}, name : {""}, quotes : {"double"}, params : {"{path}"}]

SegListsOf(S) == UNION {[1..n -> S] : n \in 0..MaxToolCalls}

SegLists == SegListsOf(Segments)

\* A fenced block that jsonBlockRegex does not match has no fenced block
\* after it (the regex would run on from its opening fence into the next
\* block).
WellSeparated(segs) ==
    \A i, j \in 1..Len(segs) :
        (i < j /\ segs[i].enc = "fenced" /\ segs[j].enc = "fenced") =>
            (segs[i].quotes = "double" /\ segs[i].name # "")

\* A completion: its tool calls in the order they are written, and the text
\* around them.
Completions == [text : Texts, segs : SegLists]

NamesOf(segs) == [i \in 1..Len(segs) |-> segs[i].name]

\* name.toLowerCase(), over the names explored
Lower(name) == IF name = "ReadFile" THEN "readfile" ELSE name

\* The mapping object literal of normalizeToolName (lines 88-95)
Mapping ==
    [k \in {"readfile", "read-file", "writefile", "write-file", "editfile", "edit-file"} |->
        CASE k \in {"readfile", "read-file"} -> "read_file"
          [] k \in {"writefile", "write-file"} -> "write_file"
          [] OTHER -> "edit_file"]

\* What mapping[key] yields for the keys every object literal inherits from
\* Object.prototype: mapping["constructor"] is the function Object,
\* mapping["__proto__"] is Object.prototype. Neither is a string.
Inherited ==
    [k \in {"constructor", "__proto__"} |->
        IF k = "constructor" THEN "[Function: Object]" ELSE "[Object: null prototype] {}"]

NonStrings == {Inherited[k] : k \in DOMAIN Inherited}

\* normalizeToolName without toLowerCase
NormalizeToolNameCaseSensitive(name) ==
    IF name \in NonStrings \cup {"[TypeError]"} THEN "[TypeError]"
    ELSE IF name \in DOMAIN Mapping THEN Mapping[name]
    ELSE IF name \in DOMAIN Inherited THEN Inherited[name]
    ELSE name

\* normalizeToolName: mapping[name.toLowerCase()] || name. Called on a value
\* that is not a string it throws a TypeError (no toLowerCase).
NormalizeToolName(name) ==
    IF name \in NonStrings \cup {"[TypeError]"} THEN "[TypeError]"
    ELSE IF Lower(name) \in DOMAIN Mapping THEN Mapping[Lower(name)]
    ELSE IF Lower(name) \in DOMAIN Inherited THEN Inherited[Lower(name)]
    ELSE name

\* tryParseToolCall on the text of one object: no call, or one. A valid JSON
\* text parses at once (lines 102-108), a single-quoted one after the quotes
\* are replaced (lines 113-131); the object must have a non-empty name;
\* parameters defaults to {}. A text that is no JSON after the repairs gives
\* no call (line 147).
\* tryParseToolCall without the test of the name (lines 103, 123, 137)
TryParseToolCallAnyName(o) ==
    IF o.quotes # "broken"
    THEN <<[name |-> NormalizeToolName(o.name),
            parameters |-> IF o.params = "absent" THEN "{}" ELSE o.params]>>
    ELSE <<>>

TryParseToolCall(o) ==
    IF o.quotes # "broken" /\ o.name # ""
    THEN <<[name |-> NormalizeToolName(o.name),
            parameters |-> IF o.params = "absent" THEN "{}" ELSE o.params]>>
    ELSE <<>>

RECURSIVE ParseEach(_)
ParseEach(objs) ==
    IF objs = <<>> THEN <<>>
    ELSE TryParseToolCall(Head(objs)) \o ParseEach(Tail(objs))

IsTagged(s) == s.enc = "tagged"

IsFenced(s) == s.enc = "fenced"

\* jsonBlockRegex (line 33) matches a fenced object that holds "name" :
\* "<one character or more>, double-quoted.
FencedMatches(s) == IsFenced(s) /\ s.quotes = "double" /\ s.name # ""

\* parseToolCalls without pattern 2
BlockCallsTaggedOnly(segs) == ParseEach(SelectSeq(segs, IsTagged))

\* Patterns 1 and 2: every tagged block, then every fenced block
BlockCalls(segs) ==
    ParseEach(SelectSeq(segs, IsTagged)) \o ParseEach(SelectSeq(segs, FencedMatches))

\* startPattern of pattern 3 (line 54): {"name": "<toolName>", double-quoted
\* and spelled as listed.
BareMatches(s, toolName) ==
    s.enc = "bare" /\ s.quotes = "double" /\ s.name = toolName

\* Pattern 3: for each listed name, the first bare object of that name
RECURSIVE BareCalls(_, _)
BareCalls(segs, names) ==
    IF names = <<>> THEN <<>>
    ELSE LET found == {i \in 1..Len(segs) : BareMatches(segs[i], Head(names))}
             first == CHOOSE i \in found : \A j \in found : i <= j
         IN  (IF found # {} THEN TryParseToolCall(segs[first]) ELSE <<>>)
                 \o BareCalls(segs, Tail(names))

\* parseToolCalls(response.content)
ParseToolCalls(c) ==
    [text |-> c.text,
     toolCalls |-> IF BlockCalls(c.segs) # <<>> THEN BlockCalls(c.segs)
                   ELSE BareCalls(c.segs, BareToolNames)]

\* The names of a list of invocations
CallNames(calls) == [i \in 1..Len(calls) |-> calls[i].name]

\* formatToolResult(name, result): a result block
ResultBlock(name, ok) == [name |-> name, ok |-> ok]

\* Lines 79-90: the calls at the head of the list that name no registered tool
\* get an error block each, without any await.
RECURSIVE SkipUnknown(_, _)
SkipUnknown(calls, results) ==
    IF calls # <<>> /\ ~ToolKnown(DefaultTools, Head(calls))
    THEN SkipUnknown(Tail(calls), Append(results, ResultBlock(Head(calls), FALSE)))
    ELSE [calls |-> calls, results |-> results]

\* while (iteration < MAX_TOOL_ITERATIONS), with one more round
LoopTestOneMore(iteration) == iteration <= MAX_TOOL_ITERATIONS

\* while (iteration < MAX_TOOL_ITERATIONS)
LoopTest(iteration) == iteration < MAX_TOOL_ITERATIONS

\* Lines 45-56 and 118-119: the loop test; the next provider request, or the
\* return at the iteration cap.
NextIteration(c, g) ==
    IF LoopTest(g.iteration)
    THEN /\ ctx' = c
         /\ ag' = [g EXCEPT !.pc = "chat", !.iteration = @ + 1, !.requests = @ + 1,
                            !.calls = <<>>, !.results = <<>>, !.written = <<>>]
    ELSE /\ ctx' = c
         /\ ag' = [g EXCEPT !.pc = "idle", !.calls = <<>>, !.results = <<>>,
                            !.written = <<>>, !.outcome = "returned",
                            !.reply = IF g.finalResponse # "" THEN g.finalResponse
                                      ELSE "unable"]

\* The end of a turn without the user message of lines 106-108
TurnMessagesCompletionOnly(c) == AddAssistantMessage(c, "completion")

\* Lines 102-108: the raw completion as an assistant message, then the
\* result blocks joined into one user message.
TurnMessages(c) == AddUserMessage(AddAssistantMessage(c, "completion"), "results")

\* Dispatch appending the completion before the first tool is awaited
DispatchAppendsFirst(g, calls, results) ==
    LET s == SkipUnknown(calls, results)
    IN  IF s.calls # <<>>
        THEN /\ ctx' = IF results = <<>> THEN AddAssistantMessage(ctx, "completion") ELSE ctx
             /\ ag' = [g EXCEPT !.pc = "tool", !.calls = s.calls, !.results = s.results]
        ELSE NextIteration(TurnMessages(ctx), [g EXCEPT !.results = s.results])

\* Lines 79-110: dispatch goes on from the calls left: up to the await of the
\* next registered tool's execute, or to the end of the turn (the completion
\* and the result blocks are appended, and the loop goes round).
Dispatch(g, calls, results) ==
    LET s == SkipUnknown(calls, results)
    IN  IF s.calls # <<>>
        THEN /\ ctx' = ctx
             /\ ag' = [g EXCEPT !.pc = "tool", !.calls = s.calls, !.results = s.results]
        ELSE NextIteration(TurnMessages(ctx), [g EXCEPT !.results = s.results])

\* Agent.run(userMessage, context) up to its first provider request.
RunCall ==
    /\ ag.pc = "idle"
    /\ Len(ctx.messages) <= MaxStartLog
    /\ NextIteration(AddUserMessage(AddSystemMessage(ctx, BuildSystemPrompt(ctx)), "input"),
                     [IdleAgent EXCEPT !.outcome = "running"])
    /\ UNCHANGED planVars

\* Lines 63-65: if (text) finalResponse = text
FinalResponse(finalResponse, text) == IF text # "" THEN text ELSE finalResponse

\* catch (error) { throw error }, swallowing the error and going round the loop
RethrowSwallowed(g) ==
    [g EXCEPT !.pc = "chat", !.iteration = @ + 1, !.requests = @ + 1,
              !.calls = <<>>, !.results = <<>>, !.written = <<>>]

\* Lines 112-115: catch (error) { spinner.stop(); throw error }
Rethrow(g) ==
    [g EXCEPT !.pc = "idle", !.outcome = "threw", !.reply = "",
              !.calls = <<>>, !.results = <<>>, !.written = <<>>]

\* The extracted calls of a completion in the order of its text: its blocks
\* when it has any, otherwise the first bare object of each listed name.
WrittenCalls(segs) ==
    LET Block(i) == segs[i].enc # "bare" /\ ~Malformed(segs[i])
        blocks == \E i \in 1..Len(segs) : Block(i)
        Keep(i) == IF blocks THEN Block(i)
                   ELSE /\ ~Malformed(segs[i])
                        /\ \E k \in 1..Len(BareToolNames) : BareToolNames[k] = segs[i].name
                        /\ \A j \in 1..(i - 1) :
                              Malformed(segs[j]) \/ segs[j].name # segs[i].name
        idx == {i \in 1..Len(segs) : Keep(i)}
        Rank(i) == Cardinality({j \in idx : j <= i})
    IN  [r \in 1..Cardinality(idx) |-> segs[CHOOSE i \in idx : Rank(i) = r].name]

\* provider.chat returns a completion, or fails (lines 56-71, 112-115).
ChatReturns ==
    /\ ag.pc = "chat"
    /\ \/ /\ ag' = Rethrow([ag EXCEPT !.cause = "provider", !.malformedOnly = FALSE])
          /\ ctx' = ctx
       \/ \E c \in Completions :
            LET r == ParseToolCalls(c)
                g == [ag EXCEPT !.finalResponse = FinalResponse(@, r.text),
                                !.seen = IF r.text # "" THEN r.text ELSE @,
                                !.written = WrittenCalls(c.segs),
                                !.noCalls = (r.toolCalls = <<>>),
                                !.malformedOnly =
                                    /\ c.segs # <<>>
                                    /\ \A i \in 1..Len(c.segs) : Malformed(c.segs[i])]
            IN  IF r.toolCalls = <<>>
                THEN /\ ctx' = AddAssistantMessage(ctx, "completion")
                     /\ ag' = [g EXCEPT !.pc = "idle", !.outcome = "returned",
                                        !.reply = IF g.finalResponse # ""
                                                  THEN g.finalResponse ELSE "raw"]
                ELSE Dispatch(g, CallNames(r.toolCalls), <<>>)
    /\ UNCHANGED planVars

\* tool.execute returns a result, or throws (lines 96-102, 112-115).
ToolReturns ==
    /\ ag.pc = "tool"
    /\ \/ /\ ag' = Rethrow([ag EXCEPT !.cause = "tool", !.collected = Len(ag.results)])
          /\ ctx' = ctx
       \/ \E ok \in BOOLEAN :
            Dispatch(ag, Tail(ag.calls),
                     Append(ag.results, ResultBlock(Head(ag.calls), ok)))
    /\ UNCHANGED planVars

\* addUserMessage called on a context outside Agent.run (Executor.execute
\* puts the plan context into its fresh context before the first task run)
DirectUserMessage ==
    /\ ag.pc = "idle"
    /\ Len(ctx.messages) < MaxStartLog
    /\ ctx' = AddUserMessage(ctx, "input")
    /\ UNCHANGED <<ag, planVars>>

\* togglePlanMode (the /readonly command; the REPL takes a command when the
\* line before it has been handled)
TogglePlanMode ==
    /\ ag.pc = "idle"
    /\ ctx' = [ctx EXCEPT !.planMode = ~@]
    /\ UNCHANGED <<ag, planVars>>

\* clearContext (the /clear command)
ClearContext ==
    /\ ag.pc = "idle"
    /\ ctx' = ClearContextOf(ctx)
    /\ UNCHANGED <<ag, planVars>>

\* ------------------------------------------------------- initial states

Activations == {1, 2}

\* What the latest finished task run of an activation did (none yet: task 0).
NoRun ==
    [task |-> 0, success |-> FALSE, cause |-> "none", agentOk |-> FALSE,
     reprompts |-> 0, buildFailed |-> FALSE, testRan |-> FALSE,
     testFailed |-> FALSE]

\* An activation of execute() that is not running. pc, task and verification
\* are the activation's position and locals; the other fields record what the
\* latest call did: how it ended (outcome, result), the plan status it was
\* called at, the task in flight when stop() was first called during it, and
\* whether it started a task after that.
\* No task prompt built.
NoPrompt == [built |-> FALSE, attemptInfo |-> FALSE, attempt |-> 0, error |-> ""]

\* buildTaskPrompt: title and description, and the attempt paragraph (attempt
\* number and previous error) when task.attempts > 0. The error is "" where
\* the task's error is undefined.
BuildTaskPrompt(t) ==
    [built |-> TRUE, attemptInfo |-> (t.attempts > 0),
     attempt |-> IF t.attempts > 0 THEN t.attempts + 1 ELSE 0,
     error |-> IF t.attempts > 0 THEN t.error ELSE ""]

IdleFrame ==
    [pc |-> "idle", task |-> 0, verification |-> "undef",
     outcome |-> "none", result |-> FALSE, callStatus |-> "none",
     stopAt |-> 0, startedAfterStop |-> FALSE,
     reprompts |-> 0, run |-> NoRun, prompt |-> NoPrompt]

NoCall == [op |-> "none", task |-> 0, ok |-> FALSE]

\* DEFAULT_PLAN_CONFIG
DefaultExConfig ==
    [runBuildAfterEachTask |-> TRUE, runTestAfterEachTask |-> FALSE,
     stopOnFirstFailure |-> FALSE]

PmConfigs ==
    [maxTaskAttempts : 1..MaxAttemptsBound, stopOnFirstFailure : BOOLEAN]

\* The dependency lists tried for an n-task plan (task i |-> its list): no
\* dependencies; a chain on the task before; a chain on the task after; the
\* last task depending on every other one; the first task depending on an id
\* that names no task; the first task depending on itself.
DepShapes(n) ==
    { [i \in 1..n |-> {}],
      [i \in 1..n |-> IF i > 1 THEN {i - 1} ELSE {}],
      [i \in 1..n |-> IF i < n THEN {i + 1} ELSE {}],
      [i \in 1..n |-> IF i = n THEN 1..(n - 1) ELSE {}],
      [i \in 1..n |-> IF i = 1 THEN {n + 1} ELSE {}],
      [i \in 1..n |-> IF i = 1 THEN {1} ELSE {}] }

\* The commands verifyAll may be given: each of lint, build and test
\* configured or not.
CommandSets == [lint : BOOLEAN, build : BOOLEAN, test : BOOLEAN]

NoCommands == [lint |-> FALSE, build |-> FALSE, test |-> FALSE]

\* verifyAll not running. commands, results and allSuccess are the call's
\* parameter and locals; ret is what the latest call returned, for which
\* commands.
IdleVerify ==
    [pc |-> "idle", commands |-> NoCommands, results |-> <<>>, allSuccess |-> TRUE,
     ret |-> [returned |-> FALSE, commands |-> NoCommands, success |-> FALSE,
              results |-> <<>>]]

\* No application of the parser under way.
InitSession ==
    /\ shouldStop = FALSE
    /\ isRunning = FALSE
    /\ frame = [a \in Activations |-> IdleFrame]
    /\ lastCall = NoCall
    /\ starts = [i \in 1..MaxTasks |-> 0]
    /\ fails = [i \in 1..MaxTasks |-> 0]
    /\ ctx = CreateContext
    /\ ag = IdleAgent
    /\ planning = "idle"
    /\ verify = IdleVerify

\* No application of the parser under way.
IdleParse ==
    [kind |-> "none", input |-> [text |-> "", segs |-> <<>>],
     result |-> [text |-> "", toolCalls |-> <<>>], done |-> FALSE,
     name |-> "", once |-> "", value |-> "", applied |-> 0]

InitCommon ==
    /\ parse = IdleParse
    /\ InitSession

\* A PlanManager as constructed (no plan), or holding a plan fresh from
\* createPlan, any dependency lists.
Init ==
    /\ InitCommon
    /\ pmConfig \in [maxTaskAttempts : {MaxDirectAttempts}, stopOnFirstFailure : BOOLEAN]
    /\ exConfig = DefaultExConfig
    /\ \/ plan = NoPlan
       \/ \E depsSeq \in DepShapes(MaxTasks) :
              plan = CreatePlan(pmConfig, depsSeq)

\* ------------------------------------- direct calls of PlanManager methods

\* Ids a caller may pass: those of the plan's tasks and one that names none.
CallIds == 1..(MaxTasks + 1)

CallApprovePlan ==
    /\ plan' = ApprovePlan(plan)
    /\ lastCall' = [op |-> "approvePlan", task |-> 0, ok |-> ApproveOk(plan)]
    /\ UNCHANGED <<pmConfig, exVars>>

CallStartExecution ==
    /\ plan' = StartExecution(plan)
    /\ lastCall' = [op |-> "startExecution", task |-> 0, ok |-> StartOk(plan)]
    /\ UNCHANGED <<pmConfig, exVars>>

CallGetNextTask ==
    /\ plan' = GetNextTask(plan).plan
    /\ lastCall' = [op |-> "getNextTask", task |-> GetNextTask(plan).task,
                    ok |-> GetNextTask(plan).task # 0]
    /\ UNCHANGED <<pmConfig, exVars>>

\* (the model stops counting a task's attempts at maxAttempts)
CallMarkTaskInProgress ==
    \E id \in CallIds :
        /\ FindTask(plan, id) # 0 =>
               plan.tasks[FindTask(plan, id)].attempts < pmConfig.maxTaskAttempts
        /\ plan' = MarkTaskInProgress(plan, id)
        /\ lastCall' = [op |-> "markTaskInProgress", task |-> 0, ok |-> TRUE]
        /\ starts' = IF FindTask(plan, id) = 0 THEN starts
                     ELSE [starts EXCEPT ![FindTask(plan, id)] = @ + 1]
        /\ UNCHANGED <<pmConfig, exConfig, shouldStop, isRunning, frame, fails,
                       agVars, parse, planning, verify>>

CallMarkTaskCompleted ==
    \E id \in CallIds :
        /\ plan' = MarkTaskCompleted(plan, pmConfig, id)
        /\ lastCall' = [op |-> "markTaskCompleted", task |-> 0, ok |-> TRUE]
        /\ UNCHANGED <<pmConfig, exVars>>

CallMarkTaskFailed ==
    \E id \in CallIds :
        /\ plan' = MarkTaskFailed(plan, pmConfig, id, "err")
        /\ lastCall' = [op |-> "markTaskFailed", task |-> 0, ok |-> TRUE]
        /\ UNCHANGED <<pmConfig, exVars>>

Next ==
    \/ CallApprovePlan
    \/ CallStartExecution
    \/ CallGetNextTask
    \/ CallMarkTaskInProgress
    \/ CallMarkTaskCompleted
    \/ CallMarkTaskFailed

Spec == Init /\ [][Next]_vars


\* ---------------------------------------------------------------- Executor

ExConfigs ==
    [runBuildAfterEachTask : BOOLEAN, runTestAfterEachTask : BOOLEAN,
     stopOnFirstFailure : BOOLEAN]

\* The plans the Executor is given: no dependencies, or each task depending
\* on the one before it.
ChainShapes(n) ==
    { [i \in 1..n |-> {}],
      [i \in 1..n |-> IF i > 1 THEN {i - 1} ELSE {}] }

\* A draft plan with its verify commands set (or no plan at all), any
\* configuration of the PlanManager and of the Executor.
InitExec ==
    /\ InitCommon
    /\ pmConfig \in PmConfigs
    /\ exConfig \in ExConfigs
    /\ \/ plan = NoPlan
       \/ \E depsSeq \in ChainShapes(MaxTasks), build \in BOOLEAN, test \in BOOLEAN :
              plan = SetVerifyCommands(CreatePlan(pmConfig, depsSeq), build, test)

\* while (!this.shouldStop)
LoopContinuesIgnoringStop(stop) == TRUE

LoopContinues(stop) == ~stop

\* Lines 103-108: the loop is left; execute() returns whether the plan is completed.
Finish(a, p, f) ==
    /\ plan' = p
    /\ isRunning' = FALSE
    /\ starts' = starts
    /\ frame' = [frame EXCEPT ![a] =
                    [f EXCEPT !.pc = "idle", !.task = 0, !.verification = "undef",
                              !.outcome = "returned", !.prompt = NoPrompt,
                              !.result = (p.status = "completed")]]

\* Lines 74-81 and 111-115: from the loop test to the await of executeTask
\* (which builds the prompt from the task just marked in_progress and runs on
\* to the await of agent.run), or out of the loop.
LoopTop(a, p, f, stop, running) ==
    LET r == GetNextTask(p)
        q == MarkTaskInProgress(r.plan, r.plan.tasks[r.task].id)
    IN  IF ~LoopContinues(stop) \/ r.task = 0
        THEN Finish(a, IF LoopContinues(stop) THEN r.plan ELSE p, f)
        ELSE /\ plan' = q
             /\ isRunning' = running
             /\ starts' = [starts EXCEPT ![r.task] = @ + 1]
             /\ frame' = [frame EXCEPT ![a] =
                             [f EXCEPT !.pc = "agent", !.task = r.task,
                                       !.verification = "undef",
                                       !.prompt = BuildTaskPrompt(q.tasks[r.task]),
                                       !.reprompts = 0,
                                       !.startedAfterStop = @ \/ f.stopAt # 0]]

\* Lines 83-101 and on to the next await: the result of executeTask is
\* recorded through the PlanManager, then the loop breaks or goes round.
Record(a, f, run) ==
    LET t == plan.tasks[f.task]
        willRetry == t.attempts < t.maxAttempts
        p == IF run.success
             THEN MarkTaskCompleted(plan, pmConfig, t.id)
             ELSE MarkTaskFailed(plan, pmConfig, t.id, "err")
        g == [f EXCEPT !.run = run]
    IN  /\ fails' = IF run.success THEN fails ELSE [fails EXCEPT ![f.task] = @ + 1]
        /\ IF ~run.success /\ ~willRetry /\ exConfig.stopOnFirstFailure
           THEN Finish(a, p, g)
           ELSE LoopTop(a, p, g, shouldStop, isRunning)

\* An await inside executeTask: only the activation moves.
Await(a, f) ==
    /\ frame' = [frame EXCEPT ![a] = f]
    /\ UNCHANGED <<plan, isRunning, starts, fails>>

\* executeTask returning success whatever verification holds
RunResultIgnoringVerification(f, v, cause, testRan, testFailed) ==
    [task |-> f.task, success |-> TRUE,
     cause |-> IF v = "fail" THEN cause ELSE "none", agentOk |-> TRUE,
     reprompts |-> f.reprompts,
     buildFailed |-> (v = "fail" /\ cause = "build"),
     testRan |-> testRan, testFailed |-> testFailed]

\* Lines 145-150: executeTask returns; success is verification?.success !== false.
RunResult(f, v, cause, testRan, testFailed) ==
    [task |-> f.task, success |-> (v # "fail"),
     cause |-> IF v = "fail" THEN cause ELSE "none", agentOk |-> TRUE,
     reprompts |-> f.reprompts,
     buildFailed |-> (v = "fail" /\ cause = "build"),
     testRan |-> testRan, testFailed |-> testFailed]

\* Line 136: the test runs when the Executor's flag is set, the plan has a
\* test command and verification?.success !== false.
TestWanted(v) == exConfig.runTestAfterEachTask /\ plan.test /\ v # "fail"

\* Lines 136-150 after the build step left verification = v.
TestGate(a, f, v) ==
    IF TestWanted(v)
    THEN Await(a, [f EXCEPT !.pc = "test", !.verification = v])
    ELSE Record(a, f, RunResult(f, v, "build", FALSE, FALSE))

\* Lines 140-142: a failing test result replaces verification.
AfterTestIgnoringResult(v, ok) == v

AfterTest(v, ok) == IF ok THEN v ELSE "fail"

\* stop()
Stop ==
    /\ shouldStop' = TRUE
    /\ frame' = [a \in Activations |->
                    IF frame[a].pc # "idle" /\ frame[a].stopAt = 0
                    THEN [frame[a] EXCEPT !.stopAt = frame[a].task]
                    ELSE frame[a]]
    /\ UNCHANGED <<plan, pmConfig, exConfig, isRunning, lastCall, starts, fails, agVars, parse, planning, verify>>

\* execute() up to its first await: it throws unless the plan is approved
\* (isApproved is true of approved and of in_progress).
ExecuteCall(a) ==
    /\ frame[a].pc = "idle"
    /\ IF ~IsApproved(plan)
       THEN /\ frame' = [frame EXCEPT ![a] =
                            [@ EXCEPT !.outcome = "threw", !.result = FALSE,
                                      !.callStatus = plan.status]]
            /\ UNCHANGED <<plan, shouldStop, isRunning, starts>>
       ELSE /\ shouldStop' = FALSE
            /\ LoopTop(a, StartExecution(plan),
                       [frame[a] EXCEPT !.outcome = "running", !.result = FALSE,
                                        !.callStatus = plan.status,
                                        !.stopAt = 0, !.startedAfterStop = FALSE],
                       FALSE, TRUE)
    /\ UNCHANGED <<pmConfig, exConfig, lastCall, fails, agVars, parse, planning, verify>>

\* agent.run of executeTask returns or throws (lines 115-121, 151-157).
AgentReturns(a) ==
    /\ frame[a].pc = "agent"
    /\ \E ok \in BOOLEAN :
        LET f == frame[a]
        IN  IF ~ok
            THEN Record(a, f, [NoRun EXCEPT !.task = f.task, !.cause = "agent"])
            ELSE IF exConfig.runBuildAfterEachTask /\ plan.build
                 THEN Await(a, [f EXCEPT !.pc = "build"])
                 ELSE TestGate(a, f, "undef")
    /\ UNCHANGED <<pmConfig, exConfig, shouldStop, lastCall, agVars, parse, planning, verify>>

\* verifier.runBuild returns (lines 122-128); on failure attemptFix re-prompts
\* the agent.
BuildReturns(a) ==
    /\ frame[a].pc = "build"
    /\ \E ok \in BOOLEAN :
        LET f == frame[a]
        IN  IF ok
            THEN TestGate(a, f, "ok")
            ELSE Await(a, [f EXCEPT !.pc = "fix", !.verification = "fail",
                                    !.reprompts = @ + 1])
    /\ UNCHANGED <<pmConfig, exConfig, shouldStop, lastCall, agVars, parse, planning, verify>>

\* agent.run of attemptFix returns or throws (lines 186-191, 128-130).
FixReturns(a) ==
    /\ frame[a].pc = "fix"
    /\ \E ok \in BOOLEAN :
        LET f == frame[a]
        IN  IF ok
            THEN Await(a, [f EXCEPT !.pc = "rebuild"])
            ELSE TestGate(a, f, "fail")
    /\ UNCHANGED <<pmConfig, exConfig, shouldStop, lastCall, agVars, parse, planning, verify>>

\* the second verifier.runBuild returns (lines 130-131).
RebuildReturns(a) ==
    /\ frame[a].pc = "rebuild"
    /\ \E ok \in BOOLEAN :
        TestGate(a, frame[a], IF ok THEN "ok" ELSE "fail")
    /\ UNCHANGED <<pmConfig, exConfig, shouldStop, lastCall, agVars, parse, planning, verify>>

\* verifier.runTests returns (lines 137-150).
TestReturns(a) ==
    /\ frame[a].pc = "test"
    /\ \E ok \in BOOLEAN :
        LET f == frame[a]
        IN  Record(a, f, RunResult(f, AfterTest(f.verification, ok), "test", TRUE, ~ok))
    /\ UNCHANGED <<pmConfig, exConfig, shouldStop, lastCall, agVars, parse, planning, verify>>

NoneRunning == \A a \in Activations : frame[a].pc = "idle"

\* One execute() at a time: each call is awaited before the next is made.
NextExec ==
    \/ CallApprovePlan
    \/ NoneRunning /\ ExecuteCall(1)
    \/ AgentReturns(1)
    \/ BuildReturns(1)
    \/ FixReturns(1)
    \/ RebuildReturns(1)
    \/ TestReturns(1)
    \/ Stop

ExecSpec == InitExec /\ [][NextExec]_vars

\* The Executor given a draft plan of any dependency lists, in any list
\* order, or a plan without tasks.
InitShape ==
    /\ InitCommon
    /\ pmConfig \in PmConfigs
    /\ exConfig \in ExConfigs
    /\ \E depsSeq \in DepShapes(MaxTasks) \cup {<<>>}, build \in BOOLEAN, test \in BOOLEAN :
          plan = SetVerifyCommands(CreatePlan(pmConfig, depsSeq), build, test)

ShapeSpec == InitShape /\ [][NextExec]_vars

\* ---------------------------------------------------------------- Verifier

\* "Run in order: lint -> build -> test"
VerifyOrder == <<"lint", "build", "test">>

\* The conditions of the three steps, without the test of allSuccess
StepWantedIgnoringFailure(k, commands, allSuccess) == commands[VerifyOrder[k]]

\* The conditions of the three steps: if (commands.lint), if (commands.build
\* && allSuccess), if (commands.test && allSuccess)
StepWanted(k, commands, allSuccess) ==
    commands[VerifyOrder[k]] /\ (k = 1 \/ allSuccess)

\* The first step after step k whose condition holds, 0 if none
NextStep(k, commands, allSuccess) ==
    LET later == {j \in (k + 1)..Len(VerifyOrder) : StepWanted(j, commands, allSuccess)}
    IN  IF later = {} THEN 0 ELSE CHOOSE j \in later : \A i \in later : j <= i

\* From the end of step k to the next await, or to the return
VerifyFrom(k, commands, results, allSuccess) ==
    LET j == NextStep(k, commands, allSuccess)
    IN  verify' = IF j # 0
                  THEN [verify EXCEPT !.pc = VerifyOrder[j], !.commands = commands,
                                      !.results = results, !.allSuccess = allSuccess]
                  ELSE [IdleVerify EXCEPT
                            !.ret = [returned |-> TRUE, commands |-> commands,
                                     success |-> allSuccess, results |-> results]]

StepIndex(pc) == CHOOSE k \in 1..Len(VerifyOrder) : VerifyOrder[k] = pc

\* verifyAll(commands) up to its first await
VerifyAllCall ==
    /\ verify.pc = "idle"
    /\ \E commands \in CommandSets : VerifyFrom(0, commands, <<>>, TRUE)
    /\ UNCHANGED <<plan, pmConfig, exConfig, shouldStop, isRunning, frame, lastCall, starts, fails, agVars, parse, planning>>

\* runLint, runBuild or runTests returns its VerificationResult
CommandReturns ==
    /\ verify.pc # "idle"
    /\ \E ok \in BOOLEAN :
          VerifyFrom(StepIndex(verify.pc), verify.commands,
                     Append(verify.results, [command |-> verify.pc, success |-> ok]),
                     verify.allSuccess /\ ok)
    /\ UNCHANGED <<plan, pmConfig, exConfig, shouldStop, isRunning, frame, lastCall, starts, fails, agVars, parse, planning>>

\* A Verifier as constructed; no plan.
InitVerify ==
    /\ InitCommon
    /\ pmConfig = [maxTaskAttempts |-> MaxAttemptsBound, stopOnFirstFailure |-> FALSE]
    /\ exConfig = DefaultExConfig
    /\ plan = NoPlan

NextVerify ==
    \/ VerifyAllCall
    \/ CommandReturns

VerifySpec == InitVerify /\ [][NextVerify]_vars

\* ------------------------------------------------------- plan commands

\* createPlan (command): "A plan already exists" unless there is no plan or
\* the plan is completed; the guard never lets the command through
CreatePlanBlockedNever(p) == FALSE

CreatePlanBlocked(p) == HasPlan(p) /\ p.status # "completed"

\* createPlan (command) up to its await of planner.createPlan
CreatePlanCommand ==
    /\ planning = "idle"
    /\ NoneRunning
    /\ IF CreatePlanBlocked(plan)
       THEN /\ planning' = "idle"
            /\ lastCall' = [op |-> "createPlan", task |-> 0, ok |-> FALSE]
       ELSE /\ planning' = "agent"
            /\ lastCall' = lastCall
    /\ UNCHANGED <<plan, pmConfig, exConfig, shouldStop, isRunning, frame, starts, fails, agVars, parse, verify>>

\* Planner.createPlan returns: the agent run failed or its reply held no
\* plan, or planManager.createPlan and setVerifyCommands have installed the
\* new plan (starts and fails count the runs of the current plan's tasks).
PlannerReturns ==
    /\ planning = "agent"
    /\ planning' = "idle"
    /\ \/ /\ lastCall' = [op |-> "createPlan", task |-> 0, ok |-> FALSE]
          /\ UNCHANGED <<plan, starts, fails>>
       \/ \E depsSeq \in ChainShapes(MaxTasks), build \in BOOLEAN, test \in BOOLEAN :
             /\ plan' = SetVerifyCommands(CreatePlan(pmConfig, depsSeq), build, test)
             /\ lastCall' = [op |-> "createPlan", task |-> 0, ok |-> TRUE]
             /\ starts' = [i \in 1..MaxTasks |-> 0]
             /\ fails' = [i \in 1..MaxTasks |-> 0]
    /\ UNCHANGED <<pmConfig, exConfig, shouldStop, isRunning, frame, agVars, parse, verify>>

\* PlanManager.clearPlan
ClearPlan(p) == NoPlan

\* clearPlan (command): stop a running executor, drop the plan
ClearPlanCommand ==
    /\ planning = "idle"
    /\ NoneRunning
    /\ shouldStop' = (shouldStop \/ isRunning)
    /\ plan' = ClearPlan(plan)
    /\ lastCall' = [op |-> "clearPlan", task |-> 0, ok |-> TRUE]
    /\ starts' = [i \in 1..MaxTasks |-> 0]
    /\ fails' = [i \in 1..MaxTasks |-> 0]
    /\ UNCHANGED <<pmConfig, exConfig, isRunning, frame, agVars, parse, planning, verify>>

\* A session: no plan at first; the plan commands, each handled to its end
\* before the next one is taken.
InitCommand ==
    /\ InitCommon
    /\ pmConfig \in PmConfigs
    /\ exConfig \in ExConfigs
    /\ plan = NoPlan

NextCommand ==
    \/ CreatePlanCommand
    \/ PlannerReturns
    \/ ClearPlanCommand
    \/ planning = "idle" /\ NoneRunning /\ CallApprovePlan
    \/ planning = "idle" /\ NoneRunning /\ ExecuteCall(1)
    \/ AgentReturns(1)
    \/ BuildReturns(1)
    \/ FixReturns(1)
    \/ RebuildReturns(1)
    \/ TestReturns(1)

CommandSpec == InitCommand /\ [][NextCommand]_vars

\* ------------------------------------------------------------ the Planner

\* A <task> block of the agent's reply: the number of its id attribute,
\* whether it holds both a <title> and a <description>, and the numbers
\* written in its <depends> list (none for the blocks that are dropped).
TaskBlocks ==
    {b \in [tag : 1..MaxTasks, complete : BOOLEAN,
            depends : {{}} \cup {{n} : n \in 1..MaxTasks}] :
        ~b.complete => b.depends = {}}

\* Block lists in which no two blocks carry the same id attribute.
BlockLists ==
    {b \in UNION {[1..n -> TaskBlocks] : n \in 0..MaxTasks} :
        \A i, j \in 1..Len(b) : b[i].tag = b[j].tag => i = j}

\* What agent.run gives Planner.createPlan: a reply with or without a <plan>
\* block, its <task> blocks, whether the block has a <verify> section naming
\* a build and a test command, and the number of numbered-list items the
\* fallback patterns find in the reply (none in the replies the fallback is
\* not applied to); or the run raised.
Replies ==
    {r \in [raised : {FALSE}, tagged : BOOLEAN, blocks : BlockLists,
            verify : BOOLEAN, numbered : 0..MaxTasks] :
        /\ ~r.tagged => (r.blocks = <<>> /\ ~r.verify)
        /\ r.tagged => r.numbered <= 1
        /\ (\E k \in 1..Len(r.blocks) : r.blocks[k].complete) => r.numbered = 0}

Raised ==
    [raised |-> TRUE, tagged |-> FALSE, blocks |-> <<>>, verify |-> FALSE, numbered |-> 0]

\* return null
NoParsedPlan == [ok |-> FALSE, depsSeq |-> <<>>, build |-> FALSE, test |-> FALSE]

\* parsePlanFallback returning a plan without tasks where it finds none
ParsePlanFallbackEmptyPlan(r) ==
    [ok |-> TRUE,
     depsSeq |-> [i \in 1..r.numbered |-> IF i = 1 THEN {} ELSE {i - 1}],
     build |-> FALSE, test |-> FALSE]

\* parsePlanFallback: one task per numbered item, each depending on the one
\* before it, no verify commands; null without an item.
ParsePlanFallback(r) ==
    IF r.numbered = 0 THEN NoParsedPlan
    ELSE [ok |-> TRUE,
          depsSeq |-> [i \in 1..r.numbered |-> IF i = 1 THEN {} ELSE {i - 1}],
          build |-> FALSE, test |-> FALSE]

IsCompleteBlock(b) == b.complete

\* The <task> blocks parsePlanResponse keeps (line 154), in reply order.
KeptBlocks(r) == SelectSeq(r.blocks, IsCompleteBlock)

\* parsePlanResponse: the kept blocks in reply order, each with the ids
\* task-<n> of the numbers n of its <depends> list; the fallback without a
\* <plan> block or a kept block.
ParsePlanResponse(r) ==
    IF ~r.tagged THEN ParsePlanFallback(r)
    ELSE IF KeptBlocks(r) = <<>> THEN ParsePlanFallback(r)
    ELSE [ok |-> TRUE,
          depsSeq |-> [i \in 1..Len(KeptBlocks(r)) |-> KeptBlocks(r)[i].depends],
          build |-> r.verify, test |-> r.verify]

\* Planner.createPlan up to its await of agent.run (parse: nothing is kept
\* of the call before)
PlannerCall ==
    /\ planning = "idle"
    /\ planning' = "agent"
    /\ parse' = IdleParse
    /\ lastCall' = NoCall
    /\ UNCHANGED <<plan, pmConfig, exConfig, shouldStop, isRunning, frame,
                   starts, fails, agVars, verify>>

\* Planner.createPlan from the end of agent.run to its return (lines 36-55):
\* the run raised, or the reply is parsed and either holds no plan or the
\* plan is installed. parse keeps the reply and what createPlan returned.
PlannerCreatePlanReturns ==
    /\ planning = "agent"
    /\ planning' = "idle"
    /\ \/ /\ parse' = [IdleParse EXCEPT !.kind = "plan", !.input = Raised,
                                         !.result = [success |-> FALSE, threw |-> FALSE],
                                         !.done = TRUE]
          /\ lastCall' = [op |-> "createPlan", task |-> 0, ok |-> FALSE]
          /\ UNCHANGED <<plan, starts, fails>>
       \/ \E r \in Replies :
             LET parsed == ParsePlanResponse(r)
             IN  /\ parse' = [IdleParse EXCEPT !.kind = "plan", !.input = r,
                                               !.result = [success |-> parsed.ok,
                                                           threw |-> FALSE],
                                               !.done = TRUE]
                 /\ lastCall' = [op |-> "createPlan", task |-> 0, ok |-> parsed.ok]
                 /\ IF parsed.ok
                    THEN /\ plan' = SetVerifyCommands(CreatePlan(pmConfig, parsed.depsSeq),
                                                      parsed.build, parsed.test)
                         /\ starts' = [i \in 1..MaxTasks |-> 0]
                         /\ fails' = [i \in 1..MaxTasks |-> 0]
                    ELSE UNCHANGED <<plan, starts, fails>>
    /\ UNCHANGED <<pmConfig, exConfig, shouldStop, isRunning, frame, agVars, verify>>

\* A Planner on a PlanManager without a plan; between two calls of
\* Planner.createPlan the plan is approved and its tasks are completed.
InitPlanner ==
    /\ InitCommon
    /\ pmConfig = [maxTaskAttempts |-> MaxAttemptsBound, stopOnFirstFailure |-> FALSE]
    /\ exConfig = DefaultExConfig
    /\ plan = NoPlan

NextPlanner ==
    \/ PlannerCall
    \/ PlannerCreatePlanReturns
    \/ planning = "idle" /\ CallApprovePlan
    \/ planning = "idle" /\ CallMarkTaskCompleted

PlannerSpec == InitPlanner /\ [][NextPlanner]_vars


\* Overlapping calls: execute() is called again while an earlier call is
\* awaiting its task. The Executor runs no verification here.
InitConc ==
    /\ InitCommon
    /\ pmConfig \in PmConfigs
    /\ exConfig \in [runBuildAfterEachTask : {FALSE}, runTestAfterEachTask : {FALSE},
                     stopOnFirstFailure : BOOLEAN]
    /\ \E depsSeq \in ChainShapes(MaxTasks) : plan = CreatePlan(pmConfig, depsSeq)

NextConc ==
    \/ CallApprovePlan
    \/ \E a \in Activations : ExecuteCall(a)
    \/ \E a \in Activations : AgentReturns(a)
    \/ Stop

ConcSpec == InitConc /\ [][NextConc]_vars

\* The interactive session: Agent.run on the session context, /readonly and
\* /clear; no plan.
InitAgent ==
    /\ InitCommon
    /\ pmConfig = [maxTaskAttempts |-> MaxAttemptsBound, stopOnFirstFailure |-> FALSE]
    /\ exConfig = DefaultExConfig
    /\ plan = NoPlan

NextAgent ==
    \/ RunCall
    \/ ChatReturns
    \/ ToolReturns
    \/ TogglePlanMode
    \/ ClearContext
    \/ DirectUserMessage

AgentSpec == InitAgent /\ [][NextAgent]_vars

\* ------------------------------------------ the parser as a pure function

\* The completions parseToolCalls is applied to.
ParseInputs ==
    {c \in [text : {""}, segs : SegListsOf(ToolCallObjects)] : WellSeparated(c.segs)}

\* The names normalizeToolName is applied to.
CanonicalNames == {"read_file", "write_file", "edit_file", "bash", "glob"}

NormalizeInputs == RawNames \cup CanonicalNames \cup DOMAIN Mapping

InitParse ==
    /\ InitSession
    /\ plan = NoPlan
    /\ pmConfig \in [maxTaskAttempts : {MaxDirectAttempts}, stopOnFirstFailure : {FALSE}]
    /\ exConfig = DefaultExConfig
    /\ \/ \E c \in ParseInputs :
             parse = [IdleParse EXCEPT !.kind = "parse", !.input = c]
       \/ \E n \in NormalizeInputs :
             parse = [IdleParse EXCEPT !.kind = "normalize", !.name = n, !.value = n]

\* parseToolCalls(input)
ParseToolCallsCall ==
    /\ parse.kind = "parse"
    /\ ~parse.done
    /\ parse' = [parse EXCEPT !.result = ParseToolCalls(parse.input), !.done = TRUE]
    /\ UNCHANGED <<plan, pmConfig, exConfig, shouldStop, isRunning, frame, lastCall,
                   starts, fails, agVars, planning, verify>>

\* normalizeToolName applied to the value the call before returned (to the
\* name, the first time)
NormalizeToolNameCall ==
    /\ parse.kind = "normalize"
    /\ parse.applied < 2
    /\ parse' = [parse EXCEPT !.value = NormalizeToolName(@),
                              !.once = IF parse.applied = 0
                                       THEN NormalizeToolName(parse.value) ELSE @,
                              !.applied = @ + 1]
    /\ UNCHANGED <<plan, pmConfig, exConfig, shouldStop, isRunning, frame, lastCall,
                   starts, fails, agVars, planning, verify>>

NextParse ==
    \/ ParseToolCallsCall
    \/ NormalizeToolNameCall

ParseSpec == InitParse /\ [][NextParse]_vars

\* ------------------------------------------------------------------ claims

TaskStatus(i) == plan.tasks[i].status

InProgress == {i \in DOMAIN plan.tasks : TaskStatus(i) = "in_progress"}

\* C1: every task returned by getNextTask is pending, and every id of its
\* dependency list names a task of the plan that is completed at that moment.
C1_NextTaskRunnable ==
    (lastCall.op = "getNextTask" /\ lastCall.task # 0) =>
        /\ TaskStatus(lastCall.task) = "pending"
        /\ \A d \in plan.tasks[lastCall.task].deps :
               \E i \in DOMAIN plan.tasks :
                   plan.tasks[i].id = d /\ TaskStatus(i) = "completed"

\* getNextTask has just returned a task that has a dependency.
C1_Witness ==
    /\ lastCall.op = "getNextTask"
    /\ lastCall.task # 0
    /\ plan.tasks[lastCall.task].deps # {}

\* C2: a task is started at most maxAttempts times; it is failed exactly when
\* maxAttempts of its runs have failed; when execute() returns without stop()
\* having been called, every task it started and never completed was started
\* maxAttempts times and is failed; and a failed task is never made pending
\* or started again.
C2_Bounded ==
    \A i \in DOMAIN plan.tasks :
        /\ starts[i] <= plan.tasks[i].maxAttempts
        /\ starts[i] = plan.tasks[i].attempts
        /\ (TaskStatus(i) = "failed") <=> (fails[i] = plan.tasks[i].maxAttempts)
        /\ (frame[1].outcome = "returned" /\ frame[1].stopAt = 0
              /\ starts[i] > 0 /\ TaskStatus(i) # "completed")
           => (starts[i] = plan.tasks[i].maxAttempts /\ TaskStatus(i) = "failed")

C2_FailedIsFinal ==
    \A i \in DOMAIN plan.tasks :
        TaskStatus(i) = "failed" =>
            (plan'.tasks[i].status = "failed" /\ starts'[i] = starts[i])

C2_ExactlyMaxAttempts == []C2_Bounded /\ [][C2_FailedIsFinal]_vars

\* A task has failed for good after more than one run.
C2_Witness ==
    \E i \in DOMAIN plan.tasks :
        /\ TaskStatus(i) = "failed"
        /\ plan.tasks[i].maxAttempts > 1
        /\ starts[i] = plan.tasks[i].maxAttempts
        /\ frame[1].outcome = "returned"

\* C3 (as claimed): plan status only moves along
\* draft -> approved -> in_progress -> {completed | failed}.
C3_Original ==
    [][\/ plan'.status = plan.status
       \/ <<plan.status, plan'.status>> \in
              { <<"draft", "approved">>, <<"approved", "in_progress">>,
                <<"in_progress", "completed">>, <<"in_progress", "failed">> }]_vars

\* C4 (as claimed): execute() goes on to run tasks only when called on an
\* approved plan, and a call that throws changes neither the plan status nor
\* any task.
C4_OnlyApproved ==
    \A a \in Activations :
        frame[a].outcome \in {"running", "returned"} => frame[a].callStatus = "approved"

C4_ThrowChangesNothing ==
    (\E a \in Activations : frame'[a].outcome = "threw" /\ frame[a].outcome # "threw")
        => plan' = plan

C4_Original == []C4_OnlyApproved /\ [][C4_ThrowChangesNothing]_vars

\* C5 (as claimed): at most one task is in_progress, overlapping execute()
\* calls included.
C5_Original == Cardinality(InProgress) <= 1

\* C6 (as claimed): while planMode is set, Agent.run executes no mutating tool.
C6_Original ==
    (ag.pc = "tool" /\ ctx.planMode) => Head(ag.calls) \notin MutatingTools


\* C7: once stop() has been called during an execute() call, that call marks
\* no further task in_progress; and when the call returns, every run it
\* started has been recorded through markTaskCompleted or markTaskFailed (the
\* task in flight at the stop included), so no task is left in_progress.
C7_StopBetweenTasks ==
    /\ ~frame[1].startedAfterStop
    /\ frame[1].outcome = "returned" =>
           \A i \in DOMAIN plan.tasks :
               /\ TaskStatus(i) # "in_progress"
               /\ starts[i] = fails[i] + (IF TaskStatus(i) = "completed" THEN 1 ELSE 0)
    /\ (frame[1].outcome = "returned" /\ frame[1].stopAt # 0) =>
           frame[1].run.task = frame[1].stopAt

\* execute() has returned after a stop() made while a task was in flight,
\* and a runnable task is left.
C7_Witness ==
    /\ frame[1].outcome = "returned"
    /\ frame[1].stopAt # 0
    /\ frame[1].run.task = frame[1].stopAt
    /\ Runnable(plan) # {}

\* C8 (as claimed): when the PlanManager is configured to stop on the first
\* failure, a task that has exhausted its attempts makes the plan failed in
\* the same step, and no task is in_progress while the plan is failed.
C8_Original ==
    /\ pmConfig.stopOnFirstFailure =>
           ((\E i \in DOMAIN plan.tasks : TaskStatus(i) = "failed")
                => plan.status = "failed")
    /\ plan.status = "failed" => InProgress = {}

\* C9 (as claimed): a run recorded as failed because build or test reported
\* failure made exactly one corrective re-prompt, and no run makes more than one.
C9_Original ==
    \A a \in Activations :
        /\ frame[a].reprompts <= 1
        /\ frame[a].run.reprompts <= 1
        /\ frame[a].run.cause \in {"build", "test"} => frame[a].run.reprompts = 1

\* C10 (as claimed): in a task run of a plan with a test command whose agent
\* run returned and whose build step did not end in failure (or did not
\* run), the test command was run, and a failing test made the run fail.
C10_Original ==
    \A a \in Activations :
        (/\ frame[a].run.task # 0
         /\ frame[a].run.agentOk
         /\ plan.test
         /\ ~frame[a].run.buildFailed) =>
            /\ frame[a].run.testRan
            /\ frame[a].run.testFailed => ~frame[a].run.success

\* C10 (amended): the same under an Executor configured with
\* runTestAfterEachTask.
C10_TestGate ==
    \A a \in Activations :
        (/\ frame[a].run.task # 0
         /\ frame[a].run.agentOk
         /\ exConfig.runTestAfterEachTask
         /\ plan.test
         /\ ~frame[a].run.buildFailed) =>
            /\ frame[a].run.testRan
            /\ frame[a].run.testFailed => ~frame[a].run.success

\* A run whose build passed and whose test failed has been recorded as failed.
C10_Witness ==
    /\ frame[1].run.task # 0
    /\ frame[1].run.agentOk
    /\ exConfig.runBuildAfterEachTask /\ plan.build
    /\ frame[1].run.testRan
    /\ frame[1].run.testFailed
    /\ ~frame[1].run.success

\* ----------------------------------------------------- Agent.run claims

SystemMessages == {i \in 1..Len(ctx.messages) : ctx.messages[i].role = "system"}

\* The names of the turn's calls in the order they are dispatched: those
\* that have their result block, then those still to come.
DispatchOrder == [i \in 1..Len(ag.results) |-> ag.results[i].name] \o ag.calls

\* Steps left in a run, at most: the rounds left times the steps of a round,
\* plus the steps left in the round in flight.
StepsLeft(g) ==
    (MAX_TOOL_ITERATIONS - g.requests) * (MaxToolCalls + 2)
        + (IF g.pc = "chat" THEN MaxToolCalls + 1 ELSE Len(g.calls))

C11_Bounded ==
    /\ ag.requests <= MAX_TOOL_ITERATIONS
    /\ ag.noCalls => ag.pc = "idle"
    /\ ag.outcome = "returned" =>
          \/ ag.noCalls
          \/ /\ ag.requests = MAX_TOOL_ITERATIONS
             /\ ag.reply = IF ag.seen # "" THEN ag.seen ELSE "unable"

C11_Progress ==
    ag.pc # "idle" =>
        /\ StepsLeft(ag) > 0
        /\ ag'.pc = "idle" \/ StepsLeft(ag') < StepsLeft(ag)

\* C11: a run makes at most MAX_TOOL_ITERATIONS provider requests; it is over
\* as soon as a completion holds no tool call; a run that returns otherwise
\* has made all its requests and returns the latest text seen, or the
\* did-not-finish message; and every return of a provider or tool call ends
\* the run or leaves fewer steps to go, so the run ends.
C11_BoundedRun == []C11_Bounded /\ [][C11_Progress]_vars

\* A run that used up its requests with tool calls in each completion, and
\* returned the latest text it had seen.
C11_Witness ==
    /\ ag.outcome = "returned"
    /\ ~ag.noCalls
    /\ ag.requests = MAX_TOOL_ITERATIONS
    /\ ag.reply = "b"

\* C12 (as claimed): no run is aborted by a tool; during a turn every call
\* dispatched so far has its result block, a failed one when the tool is
\* unknown.
C12_Original ==
    /\ ag.outcome = "threw" => ag.cause = "provider"
    /\ \A i \in 1..Len(ag.results) :
          ~ToolKnown(DefaultTools, ag.results[i].name) => ~ag.results[i].ok

\* C13 (as claimed): the calls of a turn are dispatched in the order in which
\* the completion wrote them.
C13_Original == ag.pc = "tool" => DispatchOrder = ag.written

C14_OneSystemFirst ==
    /\ Cardinality(SystemMessages) <= 1
    /\ SystemMessages \subseteq {1}

IsSystem(m) == m.role = "system"

C14_ClearKeepsSystem ==
    Len(ctx'.messages) < Len(ctx.messages) =>
        ctx'.messages = SelectSeq(ctx.messages, IsSystem)

\* C14: the log holds at most one system message, and it is the first
\* message; a step that shortens the log (clearContext) leaves exactly the
\* system message.
C14_SystemMessage == []C14_OneSystemFirst /\ [][C14_ClearKeepsSystem]_vars

\* A run on a log that began with a directly appended user message has put
\* its system message in front.
C14_Witness ==
    /\ ag.outcome = "returned"
    /\ Len(ctx.messages) >= 4
    /\ ctx.messages[1].role = "system"
    /\ ctx.messages[2].role = "user"
    /\ ctx.messages[3].role = "user"

C15_Aborted == ag.cause = "provider" => ag.pc = "idle" /\ ag.outcome = "threw"

C15_AtOnce ==
    (ag.pc = "chat" /\ ag'.cause = "provider") =>
        /\ ag'.requests = ag.requests
        /\ ctx' = ctx

\* C15: when a provider request fails the run is over at once with the error:
\* the failing step makes no request and appends nothing, and the run is not
\* running afterwards.
C15_ProviderFailureAborts == []C15_Aborted /\ [][C15_AtOnce]_vars

\* A run aborted by its third provider request, after two turns of tool calls.
C15_Witness ==
    /\ ag.outcome = "threw"
    /\ ag.cause = "provider"
    /\ ag.requests = 3

\* ------------------------------------------------- plan lifecycle claims

\* C16: under the Executor, a completed task has been started once more than
\* its runs have failed, fewer than maxAttempts of them, and holds no error.
C16_RetryThenSuccess ==
    \A i \in DOMAIN plan.tasks :
        TaskStatus(i) = "completed" =>
            /\ fails[i] < plan.tasks[i].maxAttempts
            /\ plan.tasks[i].attempts = fails[i] + 1
            /\ plan.tasks[i].error = ""

\* A task completed by its last allowed run, after every earlier run failed.
C16_Witness ==
    \E i \in DOMAIN plan.tasks :
        /\ TaskStatus(i) = "completed"
        /\ fails[i] >= 1
        /\ plan.tasks[i].attempts = plan.tasks[i].maxAttempts

\* C17: right after a getNextTask call, a second call returns the same task
\* (or none again) and leaves the plan, cursor included, as it is.
C17_SameTaskAgain ==
    lastCall.op = "getNextTask" =>
        /\ GetNextTask(plan).task = lastCall.task
        /\ GetNextTask(plan).plan = plan

\* getNextTask has skipped a task that is not pending and returned the second.
C17_Witness ==
    /\ lastCall.op = "getNextTask"
    /\ lastCall.task = 2
    /\ plan.currentTaskIndex = 1
    /\ TaskStatus(1) # "pending"

\* C18: approvePlan on a draft plan returns true and changes the status to
\* approved and nothing else; on any other plan, or with no plan, it returns
\* false and changes nothing.
C18_ApproveOnlyDraft ==
    [][lastCall'.op = "approvePlan" =>
          IF plan.status = "draft"
          THEN /\ lastCall'.ok
               /\ plan' = [plan EXCEPT !.status = "approved"]
          ELSE /\ ~lastCall'.ok
               /\ plan' = plan]_vars

\* approvePlan has approved a draft plan whose cursor had moved.
C18_Witness ==
    /\ lastCall.op = "approvePlan"
    /\ lastCall.ok
    /\ plan.status = "approved"
    /\ plan.currentTaskIndex = 1

\* C19: when the createPlan command installs a new plan, the plan it replaces
\* (if any) is completed or failed; a draft, approved or in_progress plan is
\* never replaced.
C19_ReplacedOnlyWhenDone ==
    [][(planning = "agent" /\ lastCall'.op = "createPlan" /\ lastCall'.ok) =>
          plan.status \in {"none", "completed", "failed"}]_vars

\* A new draft plan has replaced a plan that an execute() call completed.
C19_Witness ==
    /\ lastCall.op = "createPlan"
    /\ lastCall.ok
    /\ plan.status = "draft"
    /\ frame[1].outcome = "returned"
    /\ frame[1].result

\* ------------------------------------------------------ Verifier claims

\* The configured commands of a call, in the order lint, build, test
Configured(commands) ==
    LET idx == {k \in 1..Len(VerifyOrder) : commands[VerifyOrder[k]]}
        Rank(k) == Cardinality({j \in idx : j <= k})
    IN  [r \in 1..Cardinality(idx) |-> VerifyOrder[CHOOSE k \in idx : Rank(k) = r]]

\* C20: what verifyAll returns lists the configured commands in the order
\* lint, build, test up to and including the first one that failed (all of
\* them when none failed), and its success flag is true exactly when every
\* listed command succeeded.
C20_ShortCircuit ==
    verify.ret.returned =>
        LET res == verify.ret.results
            cfg == Configured(verify.ret.commands)
        IN  /\ Len(res) <= Len(cfg)
            /\ \A i \in 1..Len(res) : res[i].command = cfg[i]
            /\ \A i \in 1..(Len(res) - 1) : res[i].success
            /\ Len(res) < Len(cfg) => Len(res) >= 1 /\ ~res[Len(res)].success
            /\ verify.ret.success <=> \A i \in 1..Len(res) : res[i].success

\* All three commands configured, lint passed, build failed, test not run.
C20_Witness ==
    /\ verify.ret.returned
    /\ verify.ret.commands = [lint |-> TRUE, build |-> TRUE, test |-> TRUE]
    /\ Len(verify.ret.results) = 2
    /\ verify.ret.results[1].success
    /\ ~verify.ret.results[2].success
    /\ ~verify.ret.success


\* ---------------------------------------------------------------------------
\* Claims about PlanManager.startExecution and the attempts counter
\* ---------------------------------------------------------------------------

\* C30: startExecution on a plan whose status is not approved, or with no
\* plan, returns false and changes nothing; on an approved plan it returns
\* true and sets the status to in_progress, leaving tasks and cursor as they
\* were.
C30_StartOnlyApproved ==
    [][lastCall'.op = "startExecution" =>
          IF HasPlan(plan) /\ plan.status = "approved"
          THEN /\ lastCall'.ok
               /\ plan' = [plan EXCEPT !.status = "in_progress"]
          ELSE /\ ~lastCall'.ok
               /\ plan' = plan]_vars

\* startExecution has started an approved plan whose cursor had moved.
C30_Witness ==
    /\ lastCall.op = "startExecution"
    /\ lastCall.ok
    /\ plan.status = "in_progress"
    /\ plan.currentTaskIndex = 1

Attempts(p, i) == p.tasks[i].attempts

\* C24: the attempts counter of a task equals the number of times the task
\* has been marked in_progress: markTaskInProgress adds exactly 1 to the
\* task it marks, and getNextTask, markTaskCompleted and markTaskFailed leave
\* every attempts counter as it was.
C24_AttemptsCountStarts ==
    /\ [](\A i \in DOMAIN plan.tasks : Attempts(plan, i) = starts[i])
    /\ [][/\ lastCall'.op \in {"getNextTask", "markTaskCompleted", "markTaskFailed"}
              => \A i \in DOMAIN plan.tasks : Attempts(plan', i) = Attempts(plan, i)
          /\ lastCall'.op = "markTaskInProgress"
              => \A i \in DOMAIN plan.tasks :
                    \/ Attempts(plan', i) = Attempts(plan, i)
                    \/ /\ Attempts(plan', i) = Attempts(plan, i) + 1
                       /\ plan'.tasks[i].status = "in_progress"
                       /\ \A j \in DOMAIN plan.tasks \ {i} :
                              Attempts(plan', j) = Attempts(plan, j)]_vars

\* A task marked in_progress once and then failed by markTaskFailed, next to
\* a task completed by markTaskCompleted that was never marked in_progress.
C24_Witness ==
    \E i, j \in DOMAIN plan.tasks :
        /\ starts[i] = 1
        /\ Attempts(plan, i) = 1
        /\ plan.tasks[i].status = "failed"
        /\ lastCall.op = "markTaskFailed"
        /\ starts[j] = 0
        /\ Attempts(plan, j) = 0
        /\ plan.tasks[j].status = "completed"

\* ---------------------------------------------------------------------------
\* Claims about what execute() records
\* ---------------------------------------------------------------------------

AllCompleted(p) == \A i \in DOMAIN p.tasks : p.tasks[i].status = "completed"

\* A step in which execute() records the result of a task run (lines 83-97):
\* the activation was awaiting inside executeTask, and it either leaves the
\* loop or starts the next run.
RecordStep ==
    /\ frame[1].pc # "idle"
    /\ frame'[1].pc = "idle" \/ starts' # starts

C26_CompletedOnlyClean ==
    [][RecordStep =>
          LET r == frame'[1].run
              t == frame[1].task
              clean == r.agentOk /\ ~r.buildFailed /\ ~r.testFailed
          IN  /\ r.task = t
              /\ IF clean
                 THEN /\ plan'.tasks[t].status = "completed"
                      /\ fails'[t] = fails[t]
                 ELSE /\ plan'.tasks[t].status # "completed"
                      /\ plan'.tasks[t].error = "err"
                      /\ fails'[t] = fails[t] + 1]_vars

\* A run recorded as completed whose first build failed and whose build
\* after the corrective re-prompt passed, next to a run recorded as failed.
C26_Witness ==
    /\ frame[1].run.task # 0
    /\ frame[1].run.success
    /\ frame[1].run.reprompts = 1
    /\ TaskStatus(frame[1].run.task) = "completed"
    /\ \E i \in DOMAIN plan.tasks : fails[i] >= 1

RECURSIVE SumTo(_, _)
SumTo(f, n) == IF n = 0 THEN 0 ELSE f[n] + SumTo(f, n - 1)

\* The task starts the plan still allows: the sum over its tasks of
\* maxAttempts less the starts made.
StartsLeft(p, s) ==
    SumTo([i \in DOMAIN p.tasks |-> p.tasks[i].maxAttempts - s[i]], Len(p.tasks))

\* The awaits a task run still has before its result is recorded, at most.
AwaitsLeft(pc) ==
    CASE pc = "agent" -> 5
      [] pc = "build" -> 4
      [] pc = "fix" -> 3
      [] pc = "rebuild" -> 2
      [] pc = "test" -> 1
      [] OTHER -> 0

\* A bound on the awaits execute() still makes before it returns.
ExecuteMeasure(p, s, f) == 6 * StartsLeft(p, s) + AwaitsLeft(f.pc)

\* A pending task whose dependencies are all completed, anywhere in the plan.
ReadyTasks(p) ==
    {i \in DOMAIN p.tasks : p.tasks[i].status = "pending" /\ DepsComplete(p, i)}

\* C27: execute() terminates when every agent and verifier call returns:
\* no task is started more often than its maxAttempts (so the starts are at
\* most the sum of maxAttempts), every step of execute() lowers a measure
\* that is never negative, the loop goes on only with a task in flight, and
\* once execute() has passed the approval guard it ends by returning, never
\* by throwing, in particular when no pending task with completed
\* dependencies remains.
C27_Terminates ==
    /\ [](/\ \A i \in DOMAIN plan.tasks : starts[i] <= plan.tasks[i].maxAttempts
          /\ ExecuteMeasure(plan, starts, frame[1]) >= 0
          /\ frame[1].pc # "idle" =>
                 /\ frame[1].task \in DOMAIN plan.tasks
                 /\ TaskStatus(frame[1].task) = "in_progress"
          /\ frame[1].outcome = "threw" =>
                 frame[1].callStatus \notin {"approved", "in_progress"})
    /\ [][/\ (frame'[1].pc # frame[1].pc \/ starts' # starts) =>
                 ExecuteMeasure(plan', starts', frame'[1])
                     < ExecuteMeasure(plan, starts, frame[1])
          /\ (frame[1].pc # "idle" /\ frame'[1].pc = "idle") =>
                 frame'[1].outcome = "returned"
          /\ (RecordStep /\ ReadyTasks(plan') = {} /\ InProgress' = {}) =>
                 /\ frame'[1].pc = "idle"
                 /\ frame'[1].outcome = "returned"]_vars

\* execute() has returned, without stop(), from a plan whose frontier is
\* blocked for good: a task failed after all its attempts, and the task that
\* depends on it is still pending.
C27_Witness ==
    /\ frame[1].pc = "idle"
    /\ frame[1].outcome = "returned"
    /\ ~frame[1].result
    /\ ~shouldStop
    /\ \E i, j \in DOMAIN plan.tasks :
          /\ TaskStatus(i) = "failed"
          /\ starts[i] = MaxAttemptsBound
          /\ TaskStatus(j) = "pending"
          /\ i \in plan.tasks[j].deps
          /\ starts[j] = 0

\* C29 (as claimed): the prompt built for a task run carries attempt and
\* previous-failure text only when the run is a retry, that is when a run of
\* the task has failed before; the prompt of a first run carries none.
C29_Original ==
    frame[1].pc = "agent" =>
        /\ frame[1].prompt.built
        /\ frame[1].prompt.attemptInfo <=> fails[frame[1].task] >= 1

\* ---------------------------------------------------------------------------
\* Claims about the messages of a tool turn
\* ---------------------------------------------------------------------------

\* A step that ends an iteration of Agent.run whose completion held at least
\* one tool call: the last await of the turn is over.
ToolTurnEnds ==
    \/ ag.pc = "tool" /\ ag'.pc # "tool"
    \/ ag.pc = "chat" /\ ag'.pc # "tool" /\ ag'.outcome # "threw" /\ ~ag'.noCalls

\* C28 (as claimed): every iteration of Agent.run whose completion yields at
\* least one tool call appends exactly two messages to the log, an assistant
\* message with the raw completion and then one user message with the result
\* blocks, and appends them only after every call of the turn is dispatched.
C28_Original ==
    [][/\ ag'.pc = "tool" => ctx' = ctx
       /\ ToolTurnEnds =>
              ctx'.messages = ctx.messages \o <<Msg("assistant", "completion"),
                                                 Msg("user", "results")>>]_vars

\* ---------------------------------------------------------------------------
\* Claims about parseToolCalls and normalizeToolName
\* ---------------------------------------------------------------------------

\* The completion is one tagged block holding a valid JSON object with a
\* string name and a parameters object.
OneTaggedBlock ==
    /\ parse.kind = "parse"
    /\ parse.done
    /\ Len(parse.input.segs) = 1
    /\ parse.input.segs[1].enc = "tagged"
    /\ parse.input.segs[1].quotes = "double"
    /\ parse.input.segs[1].params # "absent"

\* The name the synonym table of the specification gives a name: an alias
\* of a canonical name, in any letter case, becomes the canonical name.
Synonym(n) ==
    CASE n \in {"readfile", "read-file", "ReadFile"} -> "read_file"
      [] n \in {"writefile", "write-file"} -> "write_file"
      [] n \in {"editfile", "edit-file"} -> "edit_file"
      [] OTHER -> n

C22_Original ==
    /\ (parse.kind = "normalize" /\ parse.applied = 2) => parse.value = parse.once
    /\ (parse.kind = "normalize" /\ parse.applied >= 1 /\ parse.name \in CanonicalNames)
           => parse.once = parse.name

\* The input of C23 written with tagged blocks in place of its fenced blocks.
AsTagged(c) ==
    [c EXCEPT !.segs = [i \in 1..Len(c.segs) |->
                           IF IsFenced(c.segs[i])
                           THEN [c.segs[i] EXCEPT !.enc = "tagged"]
                           ELSE c.segs[i]]]

\* The completion has no tagged block and carries valid JSON objects in
\* fenced blocks, one at least.
FencedOnly ==
    /\ parse.kind = "parse"
    /\ parse.done
    /\ \E i \in 1..Len(parse.input.segs) : IsFenced(parse.input.segs[i])
    /\ \A i \in 1..Len(parse.input.segs) :
          /\ ~IsTagged(parse.input.segs[i])
          /\ IsFenced(parse.input.segs[i]) => parse.input.segs[i].quotes = "double"

ToolThrows == ag.pc = "tool" /\ ag'.cause = "tool"

\* C39: when a tool's execute throws during a turn, Agent.run ends at once
\* with the error and the log gains nothing from the turn: nothing is
\* appended while the calls of a turn are dispatched, and nothing by the step
\* that throws, whatever result blocks the turn had collected.
C39_ToolThrowLeavesLog ==
    [][/\ ag'.pc = "tool" => ctx' = ctx
       /\ ToolThrows =>
              /\ ctx' = ctx
              /\ ag'.pc = "idle"
              /\ ag'.outcome = "threw"
              /\ ag'.collected = Len(ag.results)]_vars

\* The first turn of a run was aborted by a tool that threw after a result
\* block had been collected: the log holds the system message and the input.
C39_Witness ==
    /\ ag.outcome = "threw"
    /\ ag.cause = "tool"
    /\ ag.collected = 1
    /\ ag.requests = 1
    /\ Len(ctx.messages) = 2

\* The log of a run that has made k + 1 provider requests: the rebuilt system
\* message, and at the end the user message of the run followed by k pairs
\* of completion and results.
RunLog(c, g) ==
    LET n == Len(c.messages)
        k == g.requests - 1
    IN  /\ n >= 2 * k + 2
        /\ SystemIndex(c.messages) # 0
        /\ c.messages[SystemIndex(c.messages)] = Msg("system", BuildSystemPrompt(c))
        /\ c.messages[n - 2 * k] = Msg("user", "input")
        /\ \A i \in 1..k :
              /\ c.messages[n - 2 * k + 2 * i - 1] = Msg("assistant", "completion")
              /\ c.messages[n - 2 * k + 2 * i] = Msg("user", "results")

\* The step in which a provider request fails.
ProviderThrows == ag.pc = "chat" /\ ag'.cause = "provider"

\* C40: when the provider request of an iteration fails the log is not
\* rolled back: it keeps the rebuilt system message, the user message of the
\* run and the pair of every earlier iteration, and gains nothing from the
\* failed iteration.
C40_NoRollback ==
    /\ [](ag.pc = "chat" => RunLog(ctx, ag))
    /\ [][ProviderThrows => (ctx' = ctx /\ RunLog(ctx', ag))]_vars

\* A run aborted by its second provider request, its first turn's pair kept.
C40_Witness ==
    /\ ag.outcome = "threw"
    /\ ag.cause = "provider"
    /\ ag.requests = 2
    /\ Len(ctx.messages) >= 4
    /\ ctx.messages[Len(ctx.messages)] = Msg("user", "results")
    /\ ctx.messages[Len(ctx.messages) - 1] = Msg("assistant", "completion")

\* ---------------------------------------------------------------------------
\* Claims about execute() on plans of any shape
\* ---------------------------------------------------------------------------

\* The dependencies name tasks of the plan and form no cycle: the tasks can
\* be ranked so that every task ranks above its dependencies.
IsDag(p) ==
    /\ \A i \in DOMAIN p.tasks : \A d \in p.tasks[i].deps : FindTask(p, d) # 0
    /\ \E r \in [DOMAIN p.tasks -> 1..Len(p.tasks)] :
          \A i \in DOMAIN p.tasks : \A d \in p.tasks[i].deps : r[FindTask(p, d)] < r[i]

\* execute() has returned, stop() was not called, and no run has failed.
ReturnedAllRunsOk ==
    /\ frame[1].outcome = "returned"
    /\ frame[1].stopAt = 0
    /\ ~shouldStop
    /\ \A i \in DOMAIN plan.tasks : fails[i] = 0

\* C34 (as claimed): when the dependencies form a DAG over the plan's tasks
\* and every run succeeds, execute() ends with every task completed and the
\* plan completed, whatever the order of the tasks in the list.
C34_Original ==
    (ReturnedAllRunsOk /\ plan.tasks # <<>> /\ IsDag(plan)) =>
        /\ AllCompleted(plan)
        /\ plan.status = "completed"

\* C35 (as claimed): execute() returns true if and only if every task of the
\* plan is completed when it returns, for every plan, one without tasks
\* included.
C35_Original ==
    frame[1].outcome = "returned" => (frame[1].result <=> AllCompleted(plan))

\* C36: under the Executor, on a freshly created plan, every task has
\* 0 <= attempts <= maxAttempts, every pending task has attempts <
\* maxAttempts, and a task that is completed or failed never changes status
\* again.
C36_AttemptsWithinBounds ==
    /\ [](\A i \in DOMAIN plan.tasks :
             /\ 0 <= Attempts(plan, i)
             /\ Attempts(plan, i) <= plan.tasks[i].maxAttempts
             /\ TaskStatus(i) = "pending" => Attempts(plan, i) < plan.tasks[i].maxAttempts)
    /\ [][\A i \in DOMAIN plan.tasks :
             TaskStatus(i) \in {"completed", "failed"} =>
                 plan'.tasks[i].status = TaskStatus(i)]_vars

\* A task back to pending after a failed run, with an attempt left, next to
\* a task that is completed.
C36_Witness ==
    \E i, j \in DOMAIN plan.tasks :
        /\ TaskStatus(i) = "pending"
        /\ Attempts(plan, i) = 1
        /\ plan.tasks[i].maxAttempts = 2
        /\ fails[i] = 1
        /\ TaskStatus(j) = "completed"

\* A dependency of task i names no task of the plan, or task i itself.
Unsatisfiable(p, i) ==
    \E d \in p.tasks[i].deps : FindTask(p, d) = 0 \/ d = p.tasks[i].id

\* C37: a pending task with a dependency that names no task of the plan, or
\* the task itself, is never returned by getNextTask and never started, and
\* stays pending; execute() still terminates (each of its steps lowers
\* ExecuteMeasure) and returns.
C37_UnsatisfiableNeverStarted ==
    /\ [](\A i \in DOMAIN plan.tasks :
             Unsatisfiable(plan, i) =>
                 /\ TaskStatus(i) = "pending"
                 /\ Attempts(plan, i) = 0
                 /\ starts[i] = 0
                 /\ frame[1].task # i)
    /\ [][/\ (frame'[1].pc # frame[1].pc \/ starts' # starts) =>
                 /\ ExecuteMeasure(plan', starts', frame'[1])
                        < ExecuteMeasure(plan, starts, frame[1])
                 /\ ExecuteMeasure(plan', starts', frame'[1]) >= 0
          /\ (frame[1].pc # "idle" /\ frame'[1].pc = "idle") =>
                 frame'[1].outcome = "returned"]_vars

\* execute() has returned, without stop(), from a plan whose first task
\* depends on itself: that task is pending, never started, and the other
\* task is completed.
C37_Witness ==
    /\ frame[1].outcome = "returned"
    /\ ~shouldStop
    /\ Len(plan.tasks) >= 2
    /\ plan.tasks[1].id \in plan.tasks[1].deps
    /\ TaskStatus(1) = "pending"
    /\ starts[1] = 0
    /\ TaskStatus(2) = "completed"

\* C38: whenever execute() has returned (the loop found no task, stop() was
\* called, or the loop broke on the first failure), no task is in_progress:
\* every task is pending, completed or failed; and no task is ever skipped.
C38_NoneInProgressAtReturn ==
    /\ frame[1].outcome = "returned" =>
           \A i \in DOMAIN plan.tasks :
               TaskStatus(i) \in {"pending", "completed", "failed"}
    /\ \A i \in DOMAIN plan.tasks : TaskStatus(i) # "skipped"

\* execute() has returned by the break on the first failure, a task failed
\* and a task never started left pending.
C38_Witness ==
    /\ frame[1].outcome = "returned"
    /\ exConfig.stopOnFirstFailure
    /\ ~shouldStop
    /\ ~frame[1].run.success
    /\ \E i, j \in DOMAIN plan.tasks :
          /\ TaskStatus(i) = "failed"
          /\ TaskStatus(j) = "pending"
          /\ plan.tasks[j].deps = {}
          /\ starts[j] = 0

\* C33: a completion whose tool-call candidates are all malformed (no JSON
\* after the repairs, or no non-empty string name) yields no invocation:
\* Agent.run appends it as an assistant message and returns its text (the raw
\* completion when no text was ever left), without a tool run, a result
\* message, a further provider request or an exception.
C33_MalformedOnlyIsFinal ==
    [][(ag.pc = "chat" /\ ag'.malformedOnly) =>
          /\ ag'.noCalls
          /\ ag'.pc = "idle"
          /\ ag'.outcome = "returned"
          /\ ag'.cause = ag.cause
          /\ ag'.reply = (IF ag'.finalResponse # "" THEN ag'.finalResponse ELSE "raw")
          /\ ag'.requests = ag.requests
          /\ ag'.calls = <<>>
          /\ ag'.results = <<>>
          /\ ag'.written = <<>>
          /\ ctx' = AddAssistantMessage(ctx, "completion")]_vars

\* A run returned at its first completion, which held malformed candidates
\* only and left no text: one request, no tool run, the log ends with the
\* system message, the input and the completion.
C33_Witness ==
    /\ ag.malformedOnly
    /\ ag.outcome = "returned"
    /\ ag.reply = "raw"
    /\ ag.requests = 1
    /\ Len(ctx.messages) = 3
    /\ ctx.messages[3].role = "assistant"

\* The plan in place was built by parsePlanResponse from the <task> blocks
\* of the latest reply.
BuiltFromBlocks ==
    /\ parse.kind = "plan"
    /\ parse.result.success
    /\ parse.input.tagged
    /\ KeptBlocks(parse.input) # <<>>

\* The task built from the block tagged n (0 when no kept block is)
TaskOfTag(r, n) ==
    IF \E k \in 1..Len(KeptBlocks(r)) : KeptBlocks(r)[k].tag = n
    THEN CHOOSE k \in 1..Len(KeptBlocks(r)) : KeptBlocks(r)[k].tag = n
    ELSE 0

\* C31 as stated: in a plan built from <task> blocks, a task whose <depends>
\* numbers all tag other kept blocks has its dependencies complete exactly
\* when the tasks built from the blocks so tagged are completed.
C31_Original ==
    BuiltFromBlocks =>
        \A j \in DOMAIN plan.tasks :
            LET written == KeptBlocks(parse.input)[j].depends
            IN  (\A n \in written :
                    /\ TaskOfTag(parse.input, n) # 0
                    /\ n # KeptBlocks(parse.input)[j].tag) =>
                    (DepsComplete(plan, j) <=>
                        \A n \in written :
                            TaskStatus(TaskOfTag(parse.input, n)) = "completed")

\* The latest reply gave no task to either parser, or the agent run raised.
NoTaskInReply(r) ==
    \/ r.raised
    \/ /\ r.numbered = 0
       /\ \A k \in 1..Len(r.blocks) : ~(r.tagged /\ r.blocks[k].complete)

\* C32: when the agent run raises, or neither the <task> blocks nor the
\* numbered items of the reply give a task, Planner.createPlan returns
\* success = false without raising, and the PlanManager's plan (or its having
\* none) is what it was before the call.
C32_NoPlanNoChange ==
    [][(planning = "agent" /\ planning' = "idle" /\ NoTaskInReply(parse'.input)) =>
          /\ ~parse'.result.success
          /\ ~parse'.result.threw
          /\ ~lastCall'.ok
          /\ plan' = plan
          /\ starts' = starts]_vars

\* Planner.createPlan has failed on a reply whose only <task> block lacks a
\* title or a description, and the plan in place, approved and with a task
\* completed, is still there.
C32_Witness ==
    /\ parse.kind = "plan"
    /\ ~parse.result.success
    /\ parse.input.tagged
    /\ Len(parse.input.blocks) = 1
    /\ NoTaskInReply(parse.input)
    /\ planning = "idle"
    /\ plan.status = "approved"
    /\ \E i \in DOMAIN plan.tasks : TaskStatus(i) = "completed"

====
